---- MODULE Spec2Model ----
(***************************************************************************)
(* A model of dfa_identify/encoding.py: the variable Codec (six families   *)
(* of Boolean variables numbered into one dense range of literal ids), the *)
(* clause generators of the exact DFA identification encoding, the two     *)
(* symmetry breaking extensions, and the generator dfa_id_encodings that   *)
(* yields one (Codec, clauses) pair per candidate number of colors.        *)
(*                                                                         *)
(* A clause is the set of its literals (signed ids), a clause list the set *)
(* of its clauses: neither the order nor the repetition of literals or of  *)
(* clauses changes which assignments satisfy them.                         *)
(***************************************************************************)
EXTENDS Integers, Sequences, FiniteSets, TLC

VARIABLES
    codec,      \* the Codec in use: of the call under test, or of the last yielded pair
    call,       \* the last Codec method call: [fn, args, ret]
    apta,       \* the APTA handed to dfa_id_encodings
    clique,     \* max_clique(cgraph) in its iteration order (<<>> outside clique mode)
    symm_mode,  \* the symm_mode handed to dfa_id_encodings
    pc,         \* where the generator dfa_id_encodings stands
    n_colors,   \* the loop variable of dfa_id_encodings
    clauses,    \* the clause list of the last yielded pair
    yielded,    \* the n_colors of every pair yielded so far, in order
    verdicts,   \* the SAT backend's answer for every pair yielded so far, in order
    assign      \* the SAT backend's partial assignment: values of ids 1..Len(assign)

vars == <<codec, call, apta, clique, symm_mode, pc, n_colors, clauses, yielded, verdicts, assign>>

\* ------------------------------------------------------------------ bounds

MaxNodes == 3
MaxTokens == 2
MaxColors == 3
MaxRows == 4
MaxSize == 5
MaxBfsRows == 6

\* ------------------------------------------------------------------ Codec

\* symm_mode: Optional[Literal["clique", "bfs"]]; "none" stands for None.
SymmModes == {"none", "clique", "bfs"}

Codec(n_nodes_, n_colors_, n_tokens_, symm_mode_) ==
    [n_nodes |-> n_nodes_, n_colors |-> n_colors_, n_tokens |-> n_tokens_,
     symm_mode |-> symm_mode_]

\* Order: z, x, y, p, t, m
counts_default(self) ==
    << self.n_colors,
       self.n_colors * self.n_nodes,
       self.n_tokens * self.n_colors * self.n_colors,
       (self.n_colors * (self.n_colors - 1)) \div 2,
       (self.n_colors * (self.n_colors - 1)) \div 2,
       self.n_colors * self.n_tokens >>

RECURSIVE SumFirst(_, _)
\* sum(self.counts[:k])
SumFirst(counts, k) == IF k = 0 THEN 0 ELSE SumFirst(counts, k - 1) + counts[k]

\* The value that stands for the AssertionError an accessor raises; every id is >= 1.
AssertionError == 0

\* argname[:5] == "color", argname[:4] == "node", argname[:5] == "token"
ArgKind(argname) ==
    CASE argname \in {"color", "color1", "color2"} -> "color"
      [] argname = "node" -> "node"
      [] argname = "token" -> "token"
      [] OTHER -> "other"

\* The range check of one argument, by the kind its parameter name gives it.
InRange(self, argname, arg) ==
    CASE ArgKind(argname) = "color" -> arg < self.n_colors /\ arg >= 0
      [] ArgKind(argname) = "node" -> arg < self.n_nodes /\ arg >= 0
      [] ArgKind(argname) = "token" -> arg < self.n_tokens /\ arg >= 0
      [] OTHER -> TRUE

\* validate_enc with the argument of the parameter at position i taken to be
\* args[i] (0-based): each argument is checked under the name before its own.
validate_enc_m(self, argnames, args) ==
    \A i \in 1..(Len(argnames) - 1) : InRange(self, argnames[i], args[i])

\* The decorator: argnames are func's parameters, "self" first (position 0),
\* and the argument of the parameter at position i is args[i-1] (0-based), which
\* is args[i] of the 1-based tuple here. TRUE when no assertion fails.
validate_enc(self, argnames, args) ==
    \A i \in 1..(Len(argnames) - 1) : InRange(self, argnames[i + 1], args[i])

\* z
color_accepting(self, color) ==
    IF validate_enc(self, <<"self", "color">>, <<color>>)
    THEN SumFirst(counts_default(self), 0) + 1 + color
    ELSE AssertionError

\* x
color_node(self, node, color) ==
    IF validate_enc(self, <<"self", "node", "color">>, <<node, color>>)
    THEN SumFirst(counts_default(self), 1) + 1 + self.n_colors * node + color
    ELSE AssertionError

\* y
parent_relation(self, token, color1, color2) ==
    IF validate_enc(self, <<"self", "token", "color1", "color2">>, <<token, color1, color2>>)
    THEN LET a == self.n_colors
             b == a * a
         IN SumFirst(counts_default(self), 2) + 1 + color1 + a * color2 + b * token
    ELSE AssertionError

\* enumeration_parent with the triangular offset of color2 + 1.
enumeration_parent_m(self, color1, color2) ==
    IF validate_enc(self, <<"self", "color1", "color2">>, <<color1, color2>>)
       /\ color1 < color2
    THEN SumFirst(counts_default(self), 3) + 1 + ((color2 * (color2 + 1)) \div 2) + color1
    ELSE AssertionError

\* p
enumeration_parent(self, color1, color2) ==
    IF validate_enc(self, <<"self", "color1", "color2">>, <<color1, color2>>)
       /\ color1 < color2
    THEN SumFirst(counts_default(self), 3) + 1 + ((color2 * (color2 - 1)) \div 2) + color1
    ELSE AssertionError

\* t
transition_relation(self, color1, color2) ==
    IF validate_enc(self, <<"self", "color1", "color2">>, <<color1, color2>>)
       /\ color1 < color2
    THEN SumFirst(counts_default(self), 4) + 1 + ((color2 * (color2 - 1)) \div 2) + color1
    ELSE AssertionError

\* m
enumeration_label(self, token, color) ==
    IF validate_enc(self, <<"self", "token", "color">>, <<token, color>>)
    THEN SumFirst(counts_default(self), 5) + 1 + self.n_tokens * color + token
    ELSE AssertionError

ColorAcceptingVar(color, true) ==
    [kind |-> "ColorAcceptingVar", color |-> color, true |-> true]

ColorNodeVar(color, true, node) ==
    [kind |-> "ColorNodeVar", color |-> color, true |-> true, node |-> node]

ParentRelationVar(parent_color, node_color, token, true) ==
    [kind |-> "ParentRelationVar", parent_color |-> parent_color,
     node_color |-> node_color, token |-> token, true |-> true]

Abs(x) == IF x < 0 THEN 0 - x ELSE x

\* decode with color2 and token taken the other way round.
decode_m(self, lit) ==
    LET idx == Abs(lit) - 1
        color1 == idx % self.n_colors
        true == lit > 0
        kind_idx == idx \div self.n_colors
    IN IF kind_idx = 0 THEN ColorAcceptingVar(color1, true)
       ELSE IF 1 <= kind_idx /\ kind_idx <= self.n_nodes
       THEN LET node == ((idx - color1) \div self.n_colors) - 1
            IN ColorNodeVar(color1, true, node)
       ELSE LET tmp == (idx - self.n_colors * (1 + self.n_nodes)) \div self.n_colors
                color2 == tmp \div self.n_colors
                token == tmp % self.n_colors
            IN ParentRelationVar(color1, color2, token, true)

decode(self, lit) ==
    LET idx == Abs(lit) - 1
        color1 == idx % self.n_colors
        true == lit > 0
        kind_idx == idx \div self.n_colors
    IN IF kind_idx = 0 THEN ColorAcceptingVar(color1, true)
       ELSE IF 1 <= kind_idx /\ kind_idx <= self.n_nodes
       THEN LET node == ((idx - color1) \div self.n_colors) - 1
            IN ColorNodeVar(color1, true, node)
       ELSE LET tmp == (idx - self.n_colors * (1 + self.n_nodes)) \div self.n_colors
                color2 == tmp % self.n_colors
                token == tmp \div self.n_colors
            IN ParentRelationVar(color1, color2, token, true)

\* ------------------------------------------------------------------ APTA

Labels == {"accepting", "rejecting", "unknown"}

Range(n) == 0..(n - 1)

\* The APTAs with n nodes over an alphabet of nt tokens: node 0 is the root, every
\* other node has one parent (numbered before it) and the token index of its
\* incoming edge (apta.alphabet[apta.nodes[node]['source']]), no two children of a
\* node share a token, and every node is labelled accepting, rejecting or unknown.
APTAsOf(n, nt) ==
    LET parents == { p \in [1..(n - 1) -> Range(n)] : \A i \in 1..(n - 1) : p[i] < i }
        trees == { t \in parents \X [1..(n - 1) -> Range(nt)] :
                     \A i, j \in 1..(n - 1) :
                         (i # j /\ t[1][i] = t[1][j]) => t[2][i] # t[2][j] }
    IN { [n_nodes |-> n, n_tokens |-> nt, parent |-> t[1], source |-> t[2],
          label |-> l] : t \in trees, l \in [Range(n) -> Labels] }

APTAs == UNION { APTAsOf(n, nt) : n \in 1..MaxNodes, nt \in 1..MaxTokens }

\* The APTAs whose node count and alphabet size add up to MaxSize at most: those
\* of APTAs and longer trees over smaller alphabets.
SizedAPTAs ==
    UNION { UNION { APTAsOf(n, nt) : nt \in 1..(MaxSize - n) } : n \in 1..(MaxSize - 1) }

accepting(a) == { n \in Range(a.n_nodes) : a.label[n] = "accepting" }
rejecting(a) == { n \in Range(a.n_nodes) : a.label[n] = "rejecting" }

RECURSIVE Inconsistent(_, _, _)
\* Two nodes that no DFA state can hold together: one accepting and the other
\* rejecting, or with children on a same token that are inconsistent.
Inconsistent(a, u, v) ==
    \/ (u \in accepting(a) /\ v \in rejecting(a))
    \/ (u \in rejecting(a) /\ v \in accepting(a))
    \/ \E cu, cv \in 1..(a.n_nodes - 1) :
          /\ a.parent[cu] = u /\ a.parent[cv] = v
          /\ a.source[cu] = a.source[cv]
          /\ Inconsistent(a, cu, cv)

\* apta.consistency_graph().edges: each edge once, as a pair.
consistency_graph(a) ==
    { e \in Range(a.n_nodes) \X Range(a.n_nodes) : e[1] < e[2] /\ Inconsistent(a, e[1], e[2]) }

IsClique(cgraph, nodes) ==
    \A u, v \in nodes : u < v => <<u, v>> \in cgraph

\* What max_clique(cgraph) may return, in the order the loop over it visits its
\* members: a non-empty clique of the graph, in any order.
Cliques(a) ==
    LET cgraph == consistency_graph(a)
        seqs == UNION { [1..m -> Range(a.n_nodes)] : m \in 1..a.n_nodes }
    IN { q \in seqs : /\ \A i, j \in 1..Len(q) : i # j => q[i] # q[j]
                      /\ IsClique(cgraph, { q[i] : i \in 1..Len(q) }) }

\* ------------------------------------------------------------------ Clause Generator

onehot_color_clauses(c) ==
    { { color_node(c, n, col) : col \in Range(c.n_colors) } : n \in Range(c.n_nodes) }
    \cup
    { { 0 - color_node(c, nij[1], nij[2]), 0 - color_node(c, nij[1], nij[3]) } :
        nij \in { x \in Range(c.n_nodes) \X Range(c.n_colors) \X Range(c.n_colors) :
                    x[2] < x[3] } }

tokensXcolors(c) == Range(c.n_tokens) \X Range(c.n_colors)

onehot_parent_relation_clauses(c) ==
    { { parent_relation(c, ti[1], ti[2], j) : j \in Range(c.n_colors) } :
        ti \in tokensXcolors(c) }
    \cup
    { { 0 - parent_relation(c, tihj[1][1], tihj[1][2], tihj[2]),
        0 - parent_relation(c, tihj[1][1], tihj[1][2], tihj[3]) } :
        tihj \in { x \in tokensXcolors(c) \X Range(c.n_colors) \X Range(c.n_colors) :
                     x[2] < x[3] } }

\* partition_by_accepting_clauses with the rejecting nodes' literal not negated.
partition_by_accepting_clauses_m(c, a) ==
    UNION { { { 0 - color_node(c, n, col), color_accepting(c, col) } : n \in accepting(a) }
            \cup
            { { 0 - color_node(c, n, col), color_accepting(c, col) } : n \in rejecting(a) } :
            col \in Range(c.n_colors) }

partition_by_accepting_clauses(c, a) ==
    UNION { { { 0 - color_node(c, n, col), color_accepting(c, col) } : n \in accepting(a) }
            \cup
            { { 0 - color_node(c, n, col), 0 - color_accepting(c, col) } : n \in rejecting(a) } :
            col \in Range(c.n_colors) }

\* colors_parent_rel_coupling_clauses with the two colors of parent_relation
\* swapped.
colors_parent_rel_coupling_clauses_m(c, a) ==
    LET non_root_nodes == Range(a.n_nodes) \ {0}
    IN UNION {
         LET node == nij[1]
             i == nij[2]
             j == nij[3]
             parent == a.parent[node]
             token == a.source[node]
             parent_color == color_node(c, parent, i)
             node_color == color_node(c, node, j)
             parent_rel == parent_relation(c, token, j, i)
         IN { { 0 - parent_color, 0 - node_color, parent_rel },
              { 0 - parent_color, node_color, 0 - parent_rel } } :
         nij \in non_root_nodes \X Range(c.n_colors) \X Range(c.n_colors) }

colors_parent_rel_coupling_clauses(c, a) ==
    LET non_root_nodes == Range(a.n_nodes) \ {0}
    IN UNION {
         LET node == nij[1]
             i == nij[2]
             j == nij[3]
             parent == a.parent[node]
             token == a.source[node]
             parent_color == color_node(c, parent, i)
             node_color == color_node(c, node, j)
             parent_rel == parent_relation(c, token, i, j)
         IN { { 0 - parent_color, 0 - node_color, parent_rel },
              { 0 - parent_color, node_color, 0 - parent_rel } } :
         nij \in non_root_nodes \X Range(c.n_colors) \X Range(c.n_colors) }

determination_conflicts(c, cgraph) ==
    { { 0 - color_node(c, ec[1][1], ec[2]), 0 - color_node(c, ec[1][2], ec[2]) } :
        ec \in cgraph \X Range(c.n_colors) }

\* symmetry_breaking with its unit literals negated.
symmetry_breaking_m(c, clq) ==
    { { 0 - color_node(c, clq[k + 1], k) } : k \in Range(Len(clq)) }

symmetry_breaking(c, clq) ==
    { { color_node(c, clq[k + 1], k) } : k \in Range(Len(clq)) }

\* symmetry_breaking_common with the sign of t wrong in clause 3.
symmetry_breaking_common_m(c) ==
    { { color_node(c, 0, 0) } }
    \cup
    { { enumeration_parent(c, color1, color2) : color1 \in Range(color2) } :
        color2 \in { x \in Range(c.n_colors) : x > 0 } }
    \cup
    UNION {
      LET color1 == cc[1]
          color2 == cc[2]
          p == enumeration_parent(c, color1, color2)
          t == transition_relation(c, color1, color2)
          m(l) == enumeration_label(c, l, color2)
          y(l) == parent_relation(c, l, color1, color2)
      IN { {0 - t} \cup { y(token) : token \in Range(c.n_tokens) } }        \* 1
         \cup { {0 - t, 0 - p} }                                            \* 3
         \cup { {t, 0 - y(token2)} : token2 \in Range(c.n_tokens) }         \* 2
         \cup { {0 - p, 0 - m(token2), y(token2)} :
                  token2 \in Range(c.n_tokens) }                            \* 5
         \cup { {0 - y(token2), 0 - p, m(token2)}
                  \cup { y(token1) : token1 \in Range(token2) } :
                  token2 \in Range(c.n_tokens) }                            \* 7
         \cup { {0 - p, 0 - m(tt[2]), 0 - y(tt[1])} :
                  tt \in { x \in Range(c.n_tokens) \X Range(c.n_tokens) :
                             x[1] < x[2] } } :                              \* 6
      cc \in { x \in Range(c.n_colors) \X Range(c.n_colors) : x[1] < x[2] } }

symmetry_breaking_common(c) ==
    { { color_node(c, 0, 0) } }
    \cup
    { { enumeration_parent(c, color1, color2) : color1 \in Range(color2) } :
        color2 \in { x \in Range(c.n_colors) : x > 0 } }
    \cup
    UNION {
      LET color1 == cc[1]
          color2 == cc[2]
          p == enumeration_parent(c, color1, color2)
          t == transition_relation(c, color1, color2)
          m(l) == enumeration_label(c, l, color2)
          y(l) == parent_relation(c, l, color1, color2)
      IN { {0 - t} \cup { y(token) : token \in Range(c.n_tokens) } }        \* 1
         \cup { {t, 0 - p} }                                                \* 3
         \cup { {t, 0 - y(token2)} : token2 \in Range(c.n_tokens) }         \* 2
         \cup { {0 - p, 0 - m(token2), y(token2)} :
                  token2 \in Range(c.n_tokens) }                            \* 5
         \cup { {0 - y(token2), 0 - p, m(token2)}
                  \cup { y(token1) : token1 \in Range(token2) } :
                  token2 \in Range(c.n_tokens) }                            \* 7
         \cup { {0 - p, 0 - m(tt[2]), 0 - y(tt[1])} :
                  tt \in { x \in Range(c.n_tokens) \X Range(c.n_tokens) :
                             x[1] < x[2] } } :                              \* 6
      cc \in { x \in Range(c.n_colors) \X Range(c.n_colors) : x[1] < x[2] } }

\* symmetry_breaking_bfs without the clauses 12.
symmetry_breaking_bfs_m(c) ==
    UNION {
      LET color1 == cc[1]
          color2 == cc[2]
          p == enumeration_parent(c, color1, color2)
          t == transition_relation(c, color1, color2)
      IN { {0 - t, p}
                \cup { transition_relation(c, color3, color2) :
                         color3 \in Range(color1) } }                       \* 13
         \cup (IF color2 + 1 < c.n_colors
               THEN { {0 - p, 0 - enumeration_parent(c, color3, color2 + 1)} :
                        color3 \in Range(color1) }                          \* 14
                    \cup
                    { {0 - p, 0 - enumeration_parent(c, color1, color2 + 1),
                       0 - enumeration_label(c, tt[2], color2),
                       0 - enumeration_label(c, tt[1], color2 + 1)} :
                        tt \in { x \in Range(c.n_tokens) \X Range(c.n_tokens) :
                                   x[1] < x[2] } }                          \* 15
               ELSE {}) :
      cc \in { x \in Range(c.n_colors) \X Range(c.n_colors) : x[1] < x[2] } }

symmetry_breaking_bfs(c) ==
    UNION {
      LET color1 == cc[1]
          color2 == cc[2]
          p == enumeration_parent(c, color1, color2)
          t == transition_relation(c, color1, color2)
      IN { {0 - p, 0 - transition_relation(c, color3, color2)} :
             color3 \in Range(color1) }                                     \* 12
         \cup { {0 - t, p}
                \cup { transition_relation(c, color3, color2) :
                         color3 \in Range(color1) } }                       \* 13
         \cup (IF color2 + 1 < c.n_colors
               THEN { {0 - p, 0 - enumeration_parent(c, color3, color2 + 1)} :
                        color3 \in Range(color1) }                          \* 14
                    \cup
                    { {0 - p, 0 - enumeration_parent(c, color1, color2 + 1),
                       0 - enumeration_label(c, tt[2], color2),
                       0 - enumeration_label(c, tt[1], color2 + 1)} :
                        tt \in { x \in Range(c.n_tokens) \X Range(c.n_tokens) :
                                   x[1] < x[2] } }                          \* 15
               ELSE {}) :
      cc \in { x \in Range(c.n_colors) \X Range(c.n_colors) : x[1] < x[2] } }

encode_dfa_id(a, c, cgraph, clq) ==
    onehot_color_clauses(c)
    \cup partition_by_accepting_clauses(c, a)
    \cup colors_parent_rel_coupling_clauses(c, a)
    \cup onehot_parent_relation_clauses(c)
    \cup determination_conflicts(c, cgraph)
    \cup (IF c.symm_mode = "clique" THEN symmetry_breaking(c, clq)
          ELSE IF c.symm_mode = "bfs"
               THEN symmetry_breaking_common(c) \cup symmetry_breaking_bfs(c)
               ELSE {})

\* ------------------------------------------------------------------ SAT backend

\* The clause list after literal l is made true: clauses holding l are satisfied
\* and leave, the others lose -l.
Simplify(cs, l) == { cl \ {0 - l} : cl \in { d \in cs : l \notin d } }

RECURSIVE Satisfiable(_)
\* Whether some assignment satisfies every clause of cs (DPLL: unit clauses
\* first, else both values of a literal of some clause).
Satisfiable(cs) ==
    IF cs = {} THEN TRUE
    ELSE IF {} \in cs THEN FALSE
    ELSE LET units == { cl \in cs : Cardinality(cl) = 1 }
         IN IF units # {}
            THEN LET l == CHOOSE x \in UNION units : TRUE
                 IN Satisfiable(Simplify(cs, l))
            ELSE LET l == CHOOSE x \in UNION cs : TRUE
                 IN Satisfiable(Simplify(cs, l)) \/ Satisfiable(Simplify(cs, 0 - l))


\* ------------------------------------------------------------------ Trial Driver

\* No Codec yet, no call yet.
NoCodec == Codec(0, 0, 0, "none")
NoCall == [fn |-> "none", args |-> <<>>, ret |-> <<>>]

\* min_color one past the clique's size.
min_color_m == IF symm_mode = "clique" THEN Len(clique) + 1 ELSE 1

\* min_color = len(clique) if symm_mode == "clique" else 1
min_color == IF symm_mode = "clique" THEN Len(clique) ELSE 1

\* Codec.from_apta
from_apta(a, k, mode) == Codec(a.n_nodes, k, a.n_tokens, mode)

\* A call of dfa_id_encodings(apta, symm_mode), before its first pull.
InitOn(family) ==
    /\ apta \in family
    /\ symm_mode \in SymmModes
    /\ clique \in (IF symm_mode = "clique" THEN Cliques(apta) ELSE {<<>>})
    /\ pc = "start"
    /\ n_colors = 0
    /\ codec = NoCodec
    /\ clauses = {}
    /\ yielded = <<>>
    /\ verdicts = <<>>
    /\ assign = <<>>
    /\ call = NoCall

InitDriver == InitOn(APTAs)

\* One pull of the generator: the loop of dfa_id_encodings takes its next
\* n_colors and yields (codec, clauses), or it is past len(apta.nodes) and the
\* generator ends. An accessor's AssertionError while the clauses are listed
\* leaves the generator raised, with nothing yielded.
Pull ==
    /\ pc \in {"start", "yielded"}
    /\ LET k == IF pc = "start" THEN min_color ELSE n_colors + 1
       IN IF k < apta.n_nodes + 1
          THEN LET c == from_apta(apta, k, symm_mode)
                   cs == encode_dfa_id(apta, c, consistency_graph(apta), clique)
                   ok == AssertionError \notin UNION cs
               IN /\ n_colors' = k
                  /\ codec' = IF ok THEN c ELSE codec
                  /\ clauses' = IF ok THEN cs ELSE clauses
                  /\ pc' = IF ok THEN "yielded" ELSE "raised"
                  /\ yielded' = IF ok THEN Append(yielded, k) ELSE yielded
          ELSE /\ pc' = "done"
               /\ UNCHANGED <<n_colors, codec, clauses, yielded>>
    /\ assign' = <<>>
    /\ UNCHANGED <<apta, clique, symm_mode, call, verdicts>>

NextDriver == Pull

SpecDriver == InitDriver /\ [][NextDriver]_vars

\* ------------------------------------------------------------------ SAT backend, run

\* The consumer hands the pair it holds to its SAT backend and records the answer.
Solve ==
    /\ pc = "yielded"
    /\ Len(verdicts) < Len(yielded)
    /\ verdicts' = Append(verdicts, Satisfiable(clauses))
    /\ UNCHANGED <<codec, call, apta, clique, symm_mode, pc, n_colors, clauses,
                   yielded, assign>>

\* The consumer pulls the next pair once the backend has answered for this one.
PullSolved ==
    /\ Len(verdicts) = Len(yielded)
    /\ Pull

NextSat == PullSolved \/ Solve

InitSat == InitOn(SizedAPTAs)

SpecSat == InitSat /\ [][NextSat]_vars

\* The variables the backend assigns: ids 1..NumVars(c), the kinds z, x, y and,
\* in bfs mode, p, t, m (no clause of another mode holds a literal of those).
NumVars(c) ==
    IF c.symm_mode = "bfs" THEN SumFirst(counts_default(c), 6)
    ELSE SumFirst(counts_default(c), 3)

\* The value literal l has under the partial assignment a ("unset" past its end).
LitValue(a, l) ==
    IF Abs(l) > Len(a) THEN "unset"
    ELSE IF a[Abs(l)] = (l > 0) THEN "true" ELSE "false"

Falsified(a, cl) == \A l \in cl : LitValue(a, l) = "false"

\* a gives every variable a value and falsifies no clause: a model of cs.
IsModel(a, c, cs) ==
    /\ Len(a) = NumVars(c)
    /\ \A cl \in cs : ~Falsified(a, cl)

\* The transition rows (token, color) of the encoded DFA.
Rows(c) == c.n_tokens * c.n_colors

\* The backend's search, one variable at a time in id order: the next variable v
\* takes a value under which no clause is falsified (a clause without v is
\* falsified no more than it was before). Every model of the clause list is
\* reached, and nothing but a model gives every variable a value.
Search(b, rows) ==
    /\ pc = "yielded"
    /\ Rows(codec) <= rows
    /\ Len(assign) < NumVars(codec)
    /\ LET a == Append(assign, b)
           v == Len(a)
       IN /\ \A cl \in clauses : (v \in cl \/ (0 - v) \in cl) => ~Falsified(a, cl)
          /\ assign' = a
    /\ UNCHANGED <<codec, call, apta, clique, symm_mode, pc, n_colors, clauses,
                   yielded, verdicts>>

\* The consumer pulls the next pair with no search under way (a pull drops the
\* assignment, so a pull amid a search ends in the same state).
PullNext ==
    /\ assign = <<>>
    /\ Pull

\* The backend searches the encodings of MaxRows transition rows at most.
Decide == \E b \in BOOLEAN : Search(b, MaxRows)

Next == PullNext \/ Decide

Spec == InitDriver /\ [][Next]_vars

\* The APTAs of a sample of accepted strings closed under prefixes: every node is
\* accepting, so no label keeps two nodes apart and the trees alone shape the
\* clause lists.
PositiveAPTAs ==
    { a \in APTAs : \A n \in Range(a.n_nodes) : a.label[n] = "accepting" }

\* dfa_id_encodings(apta, "bfs") on such an APTA.
InitBfs ==
    /\ symm_mode = "bfs"
    /\ InitOn(PositiveAPTAs)

\* The backend searches the larger encodings too, of MaxBfsRows rows at most.
DecideBfs == \E b \in BOOLEAN : Search(b, MaxBfsRows)

NextBfs == PullNext \/ DecideBfs

SpecBfs == InitBfs /\ [][NextBfs]_vars

\* ------------------------------------------------------------------ Codec, called

\* The Codecs under test.
Codecs ==
    { Codec(nn, nc, nt, mode) :
        nn \in 1..MaxNodes, nc \in 1..MaxColors, nt \in 1..MaxTokens, mode \in SymmModes }

Largest == IF MaxNodes >= MaxColors /\ MaxNodes >= MaxTokens THEN MaxNodes
           ELSE IF MaxColors >= MaxTokens THEN MaxColors ELSE MaxTokens

\* The arguments a caller may hand to an accessor: in and out of every range.
ArgRange == (0 - 1)..Largest

InitCodec ==
    /\ codec \in Codecs
    /\ call = NoCall
    /\ apta = <<>>
    /\ clique = <<>>
    /\ symm_mode = codec.symm_mode
    /\ pc = "codec"
    /\ n_colors = 0
    /\ clauses = {}
    /\ yielded = <<>>
    /\ verdicts = <<>>
    /\ assign = <<>>

\* One call on the Codec under test and what it returns. The Codec is frozen and a
\* call leaves nothing behind, so one call per behaviour reaches every outcome.
Returns(fn, args, ret) ==
    /\ pc = "codec"
    /\ call = NoCall
    /\ call' = [fn |-> fn, args |-> args, ret |-> ret]
    /\ UNCHANGED <<codec, apta, clique, symm_mode, pc, n_colors, clauses, yielded,
                   verdicts, assign>>

CallColorAccepting ==
    \E color \in ArgRange :
        Returns("color_accepting", <<color>>, color_accepting(codec, color))

CallColorNode ==
    \E node \in ArgRange, color \in ArgRange :
        Returns("color_node", <<node, color>>, color_node(codec, node, color))

CallParentRelation ==
    \E token \in ArgRange, color1 \in ArgRange, color2 \in ArgRange :
        Returns("parent_relation", <<token, color1, color2>>,
                parent_relation(codec, token, color1, color2))

CallEnumerationParent ==
    \E color1 \in ArgRange, color2 \in ArgRange :
        Returns("enumeration_parent", <<color1, color2>>,
                enumeration_parent(codec, color1, color2))

CallTransitionRelation ==
    \E color1 \in ArgRange, color2 \in ArgRange :
        Returns("transition_relation", <<color1, color2>>,
                transition_relation(codec, color1, color2))

CallEnumerationLabel ==
    \E token \in ArgRange, color \in ArgRange :
        Returns("enumeration_label", <<token, color>>,
                enumeration_label(codec, token, color))

\* decode of a literal of the Codec: an id of 1..sum(counts), either polarity.
CallDecode ==
    \E id \in 1..SumFirst(counts_default(codec), 6), sign \in {1, 0 - 1} :
        Returns("decode", <<sign * id>>, decode(codec, sign * id))

NextCodec ==
    \/ CallColorAccepting
    \/ CallColorNode
    \/ CallParentRelation
    \/ CallEnumerationParent
    \/ CallTransitionRelation
    \/ CallEnumerationLabel
    \/ CallDecode

SpecCodec == InitCodec /\ [][NextCodec]_vars

\* ================================================================== Codec claims

\* The valid index tuples of each kind, in the order z, x, y, p, t, m.
ValidTuples(c, kind) ==
    CASE kind = 1 -> { <<col>> : col \in Range(c.n_colors) }
      [] kind = 2 -> Range(c.n_nodes) \X Range(c.n_colors)
      [] kind = 3 -> Range(c.n_tokens) \X Range(c.n_colors) \X Range(c.n_colors)
      [] kind \in {4, 5} ->
           { x \in Range(c.n_colors) \X Range(c.n_colors) : x[1] < x[2] }
      [] kind = 6 -> Range(c.n_tokens) \X Range(c.n_colors)

\* What the accessor of a kind returns for a tuple.
IdOf(c, kind, tup) ==
    CASE kind = 1 -> color_accepting(c, tup[1])
      [] kind = 2 -> color_node(c, tup[1], tup[2])
      [] kind = 3 -> parent_relation(c, tup[1], tup[2], tup[3])
      [] kind = 4 -> enumeration_parent(c, tup[1], tup[2])
      [] kind = 5 -> transition_relation(c, tup[1], tup[2])
      [] kind = 6 -> enumeration_label(c, tup[1], tup[2])

IdsOfKind(c, kind) == { IdOf(c, kind, tup) : tup \in ValidTuples(c, kind) }

RECURSIVE TuplesBefore(_, _)
\* How many valid tuples the kinds 1..kind have together.
TuplesBefore(c, kind) ==
    IF kind = 0 THEN 0
    ELSE TuplesBefore(c, kind - 1) + Cardinality(ValidTuples(c, kind))

Accessors ==
    {"color_accepting", "color_node", "parent_relation", "enumeration_parent",
     "transition_relation", "enumeration_label"}

\* The kind an accessor numbers.
KindOf(fn) ==
    CASE fn = "color_accepting" -> 1
      [] fn = "color_node" -> 2
      [] fn = "parent_relation" -> 3
      [] fn = "enumeration_parent" -> 4
      [] fn = "transition_relation" -> 5
      [] fn = "enumeration_label" -> 6

\* C1: for every Codec the six accessors, over all valid index tuples, return
\* pairwise distinct ids within a kind and across kinds (the id a call returns is
\* the id of no other tuple of any kind); the ids are exactly 1..sum(counts), and
\* each kind fills one contiguous range, in the order z, x, y, p, t, m.
C1_IdsTileTheRange ==
    /\ (pc = "codec" /\ call = NoCall) =>
          /\ \A kind \in 1..6 :
                IdsOfKind(codec, kind) =
                    (TuplesBefore(codec, kind - 1) + 1)..TuplesBefore(codec, kind)
          /\ UNION { IdsOfKind(codec, kind) : kind \in 1..6 } =
                1..SumFirst(counts_default(codec), 6)
    /\ (call.fn \in Accessors /\ call.ret # AssertionError) =>
          \A kind \in 1..6 : \A tup \in ValidTuples(codec, kind) :
              IdOf(codec, kind, tup) = call.ret
                  => (kind = KindOf(call.fn) /\ tup = call.args)

\* C1's case: with three colors or more, enumeration_label returns the last id of
\* the whole range.
C1_Witness ==
    /\ pc = "codec"
    /\ codec.n_colors >= 3
    /\ codec.n_tokens >= 2
    /\ call.fn = "enumeration_label"
    /\ call.ret = SumFirst(counts_default(codec), 6)
    /\ call.ret = TuplesBefore(codec, 6)

\* What decode must give for a tuple of kind 1, 2 or 3 and a polarity.
Descriptor(kind, tup, true) ==
    CASE kind = 1 -> [kind |-> "ColorAcceptingVar", color |-> tup[1], true |-> true]
      [] kind = 2 -> [kind |-> "ColorNodeVar", color |-> tup[2], true |-> true,
                      node |-> tup[1]]
      [] kind = 3 -> [kind |-> "ParentRelationVar", parent_color |-> tup[2],
                      node_color |-> tup[3], token |-> tup[1], true |-> true]

\* C2: for every valid index tuple of the kinds z, x, y, decode inverts the
\* accessor for both polarities: decode of a literal whose id the accessor gives
\* for a tuple returns the kind, the indices (parent_color = color1, node_color =
\* color2 for y) and true = (literal > 0).
C2_DecodeInvertsAccessors ==
    call.fn = "decode" =>
        \A kind \in 1..3 : \A tup \in ValidTuples(codec, kind) :
            IdOf(codec, kind, tup) = Abs(call.args[1])
                => call.ret = Descriptor(kind, tup, call.args[1] > 0)

\* C2's case: decode of the negative literal of parent_relation(1, 0, 1) returned
\* the descriptor of that variable, false.
C2_Witness ==
    /\ pc = "codec"
    /\ codec.n_tokens >= 2
    /\ codec.n_colors >= 2
    /\ call.fn = "decode"
    /\ call.args = << 0 - parent_relation(codec, 1, 0, 1) >>
    /\ call.ret = [kind |-> "ParentRelationVar", parent_color |-> 0, node_color |-> 1,
                   token |-> 1, true |-> FALSE]

\* The declared range of each argument of an accessor, by position.
ArgLimits(c, fn) ==
    CASE fn = "color_accepting" -> <<c.n_colors>>
      [] fn = "color_node" -> <<c.n_nodes, c.n_colors>>
      [] fn = "parent_relation" -> <<c.n_tokens, c.n_colors, c.n_colors>>
      [] fn = "enumeration_parent" -> <<c.n_colors, c.n_colors>>
      [] fn = "transition_relation" -> <<c.n_colors, c.n_colors>>
      [] fn = "enumeration_label" -> <<c.n_tokens, c.n_colors>>

\* A call that breaks the accessor's contract.
BadCall(c, fn, args) ==
    \/ \E i \in 1..Len(args) : args[i] < 0 \/ args[i] >= ArgLimits(c, fn)[i]
    \/ (fn \in {"enumeration_parent", "transition_relation"} /\ args[1] >= args[2])

\* C3: an accessor called with a node, color or token argument outside its range,
\* or enumeration_parent / transition_relation called with color1 >= color2,
\* fails: it returns no literal id.
C3_BadArgumentsFail ==
    (call.fn \in Accessors /\ BadCall(codec, call.fn, call.args))
        => call.ret = AssertionError

\* C3's case: transition_relation(1, 1), both colors in range and not in strict
\* order, failed.
C3_Witness ==
    /\ codec.n_colors >= 2
    /\ call.fn = "transition_relation"
    /\ call.args = <<1, 1>>
    /\ call.ret = AssertionError

\* C4: decode of a literal whose id lies in the range of an auxiliary kind (p, t
\* or m: id > n_colors + n_colors*n_nodes + n_tokens*n_colors^2) never returns a
\* ColorAcceptingVar, ColorNodeVar or ParentRelationVar.
C4_DecodeRefusesAuxiliaryIds ==
    (/\ call.fn = "decode"
     /\ Abs(call.args[1]) > codec.n_colors + codec.n_colors * codec.n_nodes
                              + codec.n_tokens * codec.n_colors * codec.n_colors)
        => call.ret.kind \notin {"ColorAcceptingVar", "ColorNodeVar", "ParentRelationVar"}

\* ================================================================== Trial Driver claims

\* The first n_colors tried: 1, or the size of the clique in clique mode.
FirstTrial == IF symm_mode = "clique" THEN Len(clique) ELSE 1

\* C5: dfa_id_encodings yields one pair per pull for k = min, min+1, ..., n_nodes in
\* increasing order with no k skipped or repeated, min being 1 (modes None and
\* bfs) or |clique| (clique mode); the Codec of each pair has n_colors = k and the
\* APTA's node and token counts; no pull raises; and once the generator has ended
\* it has yielded n_nodes - min + 1 pairs, the last for k = n_nodes.
C5_TrialsCountUpToNodes ==
    pc \in {"start", "yielded", "done", "raised"} =>
        /\ pc # "raised"
        /\ \A i \in 1..Len(yielded) : yielded[i] = FirstTrial + i - 1
        /\ Len(yielded) <= apta.n_nodes - FirstTrial + 1
        /\ pc = "start" => yielded = <<>>
        /\ pc = "yielded" =>
              /\ yielded # <<>>
              /\ codec = [n_nodes |-> apta.n_nodes, n_colors |-> yielded[Len(yielded)],
                          n_tokens |-> apta.n_tokens, symm_mode |-> symm_mode]
        /\ pc = "done" => Len(yielded) = apta.n_nodes - FirstTrial + 1

\* C5's case: in clique mode with a clique of two nodes of a three-node APTA the
\* generator yielded k = 2 and k = 3 and ended.
C5_Witness ==
    /\ pc = "done"
    /\ symm_mode = "clique"
    /\ Len(clique) = 2
    /\ apta.n_nodes = 3
    /\ yielded = <<2, 3>>

\* ================================================================== Clause claims

\* The backend holds a model of the clause list of the pair last yielded.
HasModel == pc = "yielded" /\ IsModel(assign, codec, clauses)

\* The assignment read through the Codec.
ColorsOfNode(n) == { col \in Range(codec.n_colors) : assign[color_node(codec, n, col)] }
Targets(t, i) == { j \in Range(codec.n_colors) : assign[parent_relation(codec, t, i, j)] }
IsAccepting(col) == assign[color_accepting(codec, col)]

RECURSIVE RunTo(_)
\* The states the DFA read off the assignment is in after the string of node n:
\* the root's color for the root, else a step on the node's token from where the
\* string of its parent ends.
RunTo(n) ==
    IF n = 0 THEN ColorsOfNode(0)
    ELSE UNION { Targets(apta.source[n], i) : i \in RunTo(apta.parent[n]) }

\* C6: in every satisfying assignment of the clauses of encode_dfa_id, for any
\* APTA, k and symmetry mode, every (token, color) has a unique target color, every
\* node has a unique color, the DFA read off the assignment ends the string of
\* every node in exactly that node's color, and so every accepting node's string
\* ends in an accepting color and every rejecting node's in a non-accepting one.
C6_ModelsRunTheApta ==
    HasModel =>
        /\ \A t \in Range(codec.n_tokens), i \in Range(codec.n_colors) :
              Cardinality(Targets(t, i)) = 1
        /\ \A n \in Range(apta.n_nodes) :
              /\ Cardinality(ColorsOfNode(n)) = 1
              /\ RunTo(n) = ColorsOfNode(n)
        /\ \A n \in accepting(apta) : \A col \in RunTo(n) : IsAccepting(col)
        /\ \A n \in rejecting(apta) : \A col \in RunTo(n) : ~IsAccepting(col)

\* C6's case: a model in clique mode for a three-node APTA with an accepting and a
\* rejecting node below the root, two colors, the run reaching both colors.
C6_Witness ==
    /\ HasModel
    /\ symm_mode = "clique"
    /\ apta.n_nodes = 3
    /\ codec.n_colors = 2
    /\ apta.parent = <<0, 1>>
    /\ apta.label[1] = "accepting"
    /\ apta.label[2] = "rejecting"
    /\ RunTo(1) # RunTo(2)

\* The APTA of the end-to-end scenario: root 0 unlabelled, node 1 below the root on
\* token a (0), accepting, node 2 below the root on token b (1), rejecting.
Scenario ==
    [n_nodes |-> 3, n_tokens |-> 2, parent |-> <<0, 0>>, source |-> <<0, 1>>,
     label |-> [n \in Range(3) |->
                  IF n = 1 THEN "accepting" ELSE IF n = 2 THEN "rejecting" ELSE "unknown"]]

InScenario ==
    /\ pc = "yielded"
    /\ apta = Scenario
    /\ symm_mode = "none"
    /\ n_colors = 2

\* C7: for the scenario APTA and n_colors = 2 without symmetry breaking, the Codec
\* counts 2 ColorAccepting, 6 ColorNode and 8 ParentRelation variables, the clause
\* list is satisfiable, and in every satisfying assignment nodes 1 and 2 have
\* different colors, node 1's color accepting and node 2's color not.
C7_ScenarioSeparatesTheLeaves ==
    InScenario =>
        /\ SubSeq(counts_default(codec), 1, 3) = <<2, 6, 8>>
        /\ Satisfiable(clauses)
        /\ HasModel =>
              /\ ColorsOfNode(1) \cap ColorsOfNode(2) = {}
              /\ ColorsOfNode(1) # {} /\ ColorsOfNode(2) # {}
              /\ \A col \in ColorsOfNode(1) : IsAccepting(col)
              /\ \A col \in ColorsOfNode(2) : ~IsAccepting(col)

\* C7's case: the backend found a model of the scenario's clause list.
C7_Witness == InScenario /\ HasModel

\* The clause list of the same trial without symmetry breaking.
BaseClauses(a, k) ==
    encode_dfa_id(a, from_apta(a, k, "none"), consistency_graph(a), <<>>)

\* The backend has answered for the pair last yielded.
Answered == pc = "yielded" /\ Len(verdicts) = Len(yielded)

\* C8: in clique mode, for any APTA, any clique of its consistency graph and any k
\* from |clique| to n_nodes, the clause list with the clique's unit clauses is
\* satisfiable if and only if the list without symmetry breaking is, for the same k.
C8_CliqueSeedingKeepsSatisfiability ==
    (Answered /\ symm_mode = "clique") =>
        (verdicts[Len(verdicts)] <=> Satisfiable(BaseClauses(apta, n_colors)))

\* C8's case: a clique of three nodes seeded with three colors, satisfiable.
C8_Witness ==
    /\ Answered
    /\ symm_mode = "clique"
    /\ Len(clique) = 3
    /\ n_colors = 3
    /\ verdicts[Len(verdicts)]

\* C8's other case: a clique of one node and one color, where neither list is
\* satisfiable.
C8_WitnessUnsat ==
    /\ Answered
    /\ symm_mode = "clique"
    /\ n_colors = 1
    /\ ~verdicts[Len(verdicts)]

\* The value of the variable of a bfs-mode model.
IsEnumParent(i, j) == assign[enumeration_parent(codec, i, j)]
HasTransition(i, j) == assign[transition_relation(codec, i, j)]

\* C9: in bfs mode, in every satisfying assignment and for every color j with
\* 0 < j < n_colors, exactly one color i < j has EnumerationParent(i, j) true, and
\* that i is the smallest color with TransitionRelation(i, j) true.
C9_OneEnumerationParent ==
    (HasModel /\ symm_mode = "bfs") =>
        \A j \in 1..(codec.n_colors - 1) :
            LET parents == { i \in Range(j) : IsEnumParent(i, j) }
            IN /\ Cardinality(parents) = 1
               /\ \A i \in parents :
                     /\ HasTransition(i, j)
                     /\ \A h \in Range(i) : ~HasTransition(h, j)

\* C9's case: a bfs-mode model with three colors in which color 1, not color 0, is
\* the enumeration parent of color 2.
C9_Witness ==
    /\ HasModel
    /\ symm_mode = "bfs"
    /\ codec.n_colors = 3
    /\ IsEnumParent(1, 2)
    /\ ~IsEnumParent(0, 2)

\* The smallest member of a set of numbers, 0 for the empty set.
Least(S) == IF S = {} THEN 0 ELSE CHOOSE x \in S : \A y \in S : x <= y

\* C10: for every APTA, the smallest k of 1..n_nodes whose bfs-mode clause list is
\* satisfiable is the smallest k whose clause list without symmetry breaking is
\* satisfiable.
C10_BfsKeepsTheMinimum ==
    (pc = "done" /\ symm_mode = "bfs" /\ Len(verdicts) = Len(yielded)) =>
        Least({ yielded[i] : i \in { x \in 1..Len(yielded) : verdicts[x] } })
            = Least({ k \in 1..apta.n_nodes : Satisfiable(BaseClauses(apta, k)) })

\* C10's case: a bfs-mode run to the end whose first satisfiable trial is k = 3.
C10_Witness ==
    /\ pc = "done"
    /\ symm_mode = "bfs"
    /\ Len(verdicts) = Len(yielded)
    /\ Len(yielded) >= 3
    /\ ~verdicts[1] /\ ~verdicts[2] /\ verdicts[3]

====
